---------------------------- MODULE Spec2Model ----------------------------
(***************************************************************************)
(* cbsyst/carbon_fns.py: the carbonate equilibrium solver.                 *)
(*                                                                         *)
(* Numbers are exact rationals <<n, d>> (d > 0, lowest terms), so the      *)
(* algebra of the closed forms and of the residuals is checked exactly;    *)
(* the rounding of IEEE doubles is not modelled.                           *)
(*                                                                         *)
(* A Python value is a record                                              *)
(*     [sh  |-> 0 for a Python scalar, n >= 1 for an ndarray of n entries, *)
(*      e   |-> its entries (one entry for a scalar),                      *)
(*      u   |-> TRUE when the entries are `uncertainties` objects,         *)
(*      err |-> "" or the name of the exception its evaluation raised]     *)
(* and arithmetic follows numpy: elementwise, broadcasting a scalar or a   *)
(* one-entry array, raising ValueError on two arrays of unequal length.    *)
(***************************************************************************)
EXTENDS Integers, Sequences, FiniteSets, TLC

VARIABLES stage, inp, out,
          pc, fn, args, ret, log, call, ier, warned, onceregistry, ncalls

algvars == <<stage, inp, out>>
callvars == <<pc, fn, args, ret, log, call, ier, warned, onceregistry, ncalls>>
vars == <<stage, inp, out,
          pc, fn, args, ret, log, call, ier, warned, onceregistry, ncalls>>

-----------------------------------------------------------------------------
(* Exact rational arithmetic: Python's float operators + - * / **.         *)

Abs(n) == IF n < 0 THEN -n ELSE n

RECURSIVE GCD(_, _)
GCD(a, b) == IF b = 0 THEN a ELSE GCD(b, a % b)

QNorm(n, d) ==
    IF n = 0 THEN <<0, 1>>
    ELSE LET g == GCD(Abs(n), Abs(d))
             s == IF d < 0 THEN -1 ELSE 1
         IN <<s * (n \div g), s * (d \div g)>>

Q(n) == <<n, 1>>
QNeg(a) == <<-a[1], a[2]>>
\* (common factors are cancelled before multiplying, to keep the integers small)
QAdd(a, b) ==
    LET g == GCD(a[2], b[2])
    IN QNorm(a[1] * (b[2] \div g) + b[1] * (a[2] \div g), (a[2] \div g) * b[2])
QSub(a, b) == QAdd(a, QNeg(b))
QMul(a, b) ==
    LET x == QNorm(a[1], b[2])
        y == QNorm(b[1], a[2])
    IN <<x[1] * y[1], x[2] * y[2]>>
QInv(a) == IF a[1] < 0 THEN <<-a[2], -a[1]>> ELSE <<a[2], a[1]>>
QDiv(a, b) == QMul(a, QInv(b))
QLess(a, b) == a[1] * b[2] < b[1] * a[2]
QIsZero(a) == a[1] = 0
\* floor(a + 1/2): the nearest integer
QRound(a) == (2 * a[1] + a[2]) \div (2 * a[2])

RECURSIVE IPow(_, _)
IPow(b, k) == IF k = 0 THEN 1 ELSE b * IPow(b, k - 1)

-----------------------------------------------------------------------------
(* Python values: scalars, ndarrays, exceptions.                           *)

Raise(name) == [sh |-> 0, e |-> <<>>, u |-> FALSE, err |-> name]
Scalar(q) == [sh |-> 0, e |-> <<q>>, u |-> FALSE, err |-> ""]
Num(n) == Scalar(Q(n))
Array(qs) == [sh |-> Len(qs), e |-> qs, u |-> FALSE, err |-> ""]
\* the same entries, each an uncertainties object (nominal value +/- error)
Uncertain(v) == [v EXCEPT !.u = TRUE]
IsErr(v) == v.err # ""
\* np.size
Size(v) == IF v.sh = 0 THEN 1 ELSE v.sh
Max2(a, b) == IF a < b THEN b ELSE a
At(v, i) == IF Len(v.e) = 1 THEN v.e[1] ELSE v.e[i]

\* one of Python's binary operators on two entries
QOp(op, x, y) ==
    CASE op = "+" -> QAdd(x, y)
      [] op = "-" -> QSub(x, y)
      [] op = "*" -> QMul(x, y)
      [] op = "/" -> QDiv(x, y)

\* numpy's elementwise binary operator with broadcasting
Bop(op, a, b) ==
    IF IsErr(a) THEN a
    ELSE IF IsErr(b) THEN b
    ELSE IF a.sh > 1 /\ b.sh > 1 /\ a.sh # b.sh THEN Raise("ValueError")
    ELSE LET n == Max2(a.sh, b.sh)
         IN [sh |-> n,
             e |-> [i \in 1..Max2(n, 1) |-> QOp(op, At(a, i), At(b, i))],
             u |-> a.u \/ b.u,
             err |-> ""]

Add(a, b) == Bop("+", a, b)
Sub(a, b) == Bop("-", a, b)
Mul(a, b) == Bop("*", a, b)
\* (no argument drawn below makes a divisor zero)
Div(a, b) ==
    IF ~IsErr(b) /\ (\E i \in 1..Len(b.e) : QIsZero(b.e[i]))
    THEN (IF IsErr(a) THEN a ELSE Raise("ZeroDivisionError"))
    ELSE Bop("/", a, b)
RECURSIVE Pow(_, _)
Pow(a, k) == IF k = 1 THEN a ELSE Mul(a, Pow(a, k - 1))


-----------------------------------------------------------------------------
(* The pH converter of cbsyst.boron_fns: H = 10^-pH, elementwise (integer   *)
(* pH only).                                                               *)

chQ(p) == IF p[1] >= 0 THEN <<1, IPow(10, p[1])>> ELSE <<IPow(10, -p[1]), 1>>

ch(pH) ==
    IF IsErr(pH) THEN pH
    ELSE [pH EXCEPT !.e = [i \in 1..Len(pH.e) |-> chQ(pH.e[i])]]

-----------------------------------------------------------------------------
(* Direct-formula solvers (pH known).                                      *)

\* 1. CO2 and pH given: returns DIC
CO2_pH(CO2, pH, Ks) ==
    LET h == ch(pH)
    IN Mul(CO2, Add(Add(Num(1), Div(Ks.K1, h)),
                    Div(Mul(Ks.K1, Ks.K2), Pow(h, 2))))

\* pH_HCO3 had it dropped the uncertainty of HCO3 (as noms does)
pH_HCO3_nominal(pH, HCO3, Ks) ==
    LET h == ch(pH)
    IN Mul([HCO3 EXCEPT !.u = FALSE],
           Add(Add(Num(1), Div(h, Ks.K1)), Div(Ks.K2, h)))

\* 6. pH and HCO3: returns DIC
pH_HCO3(pH, HCO3, Ks) ==
    LET h == ch(pH)
    IN Mul(HCO3, Add(Add(Num(1), Div(h, Ks.K1)), Div(Ks.K2, h)))

\* 7. pH and CO3: returns DIC
pH_CO3(pH, CO3, Ks) ==
    LET h == ch(pH)
    IN Mul(CO3, Add(Add(Num(1), Div(h, Ks.K2)),
                    Div(Pow(h, 2), Mul(Ks.K1, Ks.K2))))

\* pH_TA without the "+ h" of its numerator
pH_TA_noH(pH, TA, BT, Ks) ==
    LET h == ch(pH)
    IN Div(Sub(Sub(TA, Div(Mul(Ks.KB, BT), Add(Ks.KB, h))),
               Div(Ks.KW, h)),
           Add(Div(Ks.K1, h),
               Div(Mul(Mul(Num(2), Ks.K1), Ks.K2), Pow(h, 2))))

\* 8. pH and TA: returns CO2
pH_TA(pH, TA, BT, Ks) ==
    LET h == ch(pH)
    IN Div(Add(Sub(Sub(TA, Div(Mul(Ks.KB, BT), Add(Ks.KB, h))),
                   Div(Ks.KW, h)),
               h),
           Add(Div(Ks.K1, h),
               Div(Mul(Mul(Num(2), Ks.K1), Ks.K2), Pow(h, 2))))

\* 9. pH and DIC: returns CO2
pH_DIC(pH, DIC, Ks) ==
    LET h == ch(pH)
    IN Div(DIC, Add(Add(Num(1), Div(Ks.K1, h)),
                    Div(Mul(Ks.K1, Ks.K2), Pow(h, 2))))

-----------------------------------------------------------------------------
(* Concentration converters.                                               *)

\* 1.1.9
cCO2(H, DIC, Ks) ==
    Div(DIC, Add(Add(Num(1), Div(Ks.K1, H)),
                 Div(Mul(Ks.K1, Ks.K2), Pow(H, 2))))

\* 1.1.10
cHCO3(H, DIC, Ks) ==
    Div(DIC, Add(Add(Num(1), Div(H, Ks.K1)), Div(Ks.K2, H)))

\* cCO3 with K1 in place of K2 in its middle term
cCO3_K1(H, DIC, Ks) ==
    Div(DIC, Add(Add(Num(1), Div(H, Ks.K1)),
                 Div(Pow(H, 2), Mul(Ks.K1, Ks.K2))))

\* 1.1.11
cCO3(H, DIC, Ks) ==
    Div(DIC, Add(Add(Num(1), Div(H, Ks.K2)),
                 Div(Pow(H, 2), Mul(Ks.K1, Ks.K2))))

\* 1.5.80
cTA(CO2, H, BT, Ks) ==
    Sub(Add(Add(Mul(CO2, Add(Div(Ks.K1, H),
                             Div(Mul(Mul(Num(2), Ks.K1), Ks.K2), Pow(H, 2)))),
                Div(Mul(BT, Ks.KB), Add(Ks.KB, H))),
            Div(Ks.KW, H)),
        H)

-----------------------------------------------------------------------------
(* The residuals LH - RH of the implicit solvers.                          *)

\* h**2 + K1*h + K1*K2
PolyK(h, Ks) == Add(Add(Pow(h, 2), Mul(Ks.K1, h)), Mul(Ks.K1, Ks.K2))

zero_CO2_HCO3(h, CO2, HCO3, Ks) ==
    LET LH == Mul(CO2, PolyK(h, Ks))
        RH == Mul(HCO3, Add(Add(Pow(h, 2), Div(Pow(h, 3), Ks.K1)),
                            Mul(Ks.K2, h)))
    IN Sub(LH, RH)

zero_CO2_CO3(h, CO2, CO3, Ks) ==
    LET LH == Mul(CO2, PolyK(h, Ks))
        RH == Mul(CO3, Add(Add(Pow(h, 2), Div(Pow(h, 3), Ks.K2)),
                           Div(Pow(h, 4), Mul(Ks.K1, Ks.K2))))
    IN Sub(LH, RH)

zero_CO2_TA(h, CO2, TA, BT, Ks) ==
    LET LH == Mul(Mul(TA, Pow(h, 2)), Add(Ks.KB, h))
        RH == Add(Add(Mul(Mul(CO2, Add(Ks.KB, h)),
                          Add(Mul(Ks.K1, h),
                              Mul(Mul(Num(2), Ks.K1), Ks.K2))),
                      Mul(Mul(Pow(h, 2), Ks.KB), BT)),
                  Mul(Add(Ks.KB, h), Sub(Mul(Ks.KW, h), Pow(h, 3))))
    IN Sub(LH, RH)

zero_CO2_DIC(h, CO2, DIC, Ks) ==
    LET LH == Mul(DIC, Pow(h, 2))
        RH == Mul(CO2, PolyK(h, Ks))
    IN Sub(LH, RH)

\* h + h**2/K1 + K2
PolyH(h, Ks) == Add(Add(h, Div(Pow(h, 2), Ks.K1)), Ks.K2)

\* h + h**2/K2 + h**3/(K1*K2)
PolyC(h, Ks) ==
    Add(Add(h, Div(Pow(h, 2), Ks.K2)), Div(Pow(h, 3), Mul(Ks.K1, Ks.K2)))

zero_HCO3_CO3(h, HCO3, CO3, Ks) ==
    LET LH == Mul(HCO3, PolyH(h, Ks))
        RH == Mul(CO3, PolyC(h, Ks))
    IN Sub(LH, RH)

\* TA*(KB + h)*(h**3 + K1*h**2 + K1*K2*h)
LeftTA(h, TA, Ks) ==
    Mul(Mul(TA, Add(Ks.KB, h)),
        Add(Add(Pow(h, 3), Mul(Ks.K1, Pow(h, 2))),
            Mul(Mul(Ks.K1, Ks.K2), h)))

\* (h**2 + K1*h + K1*K2)*(KB*BT*h + KW*KB + KW*h - KB*h**2 - h**3)
WaterBorate(h, BT, Ks) ==
    Mul(PolyK(h, Ks),
        Sub(Sub(Add(Add(Mul(Mul(Ks.KB, BT), h), Mul(Ks.KW, Ks.KB)),
                    Mul(Ks.KW, h)),
                Mul(Ks.KB, Pow(h, 2))),
            Pow(h, 3)))

\* zero_HCO3_TA with (KB + K2) in place of (KB + 2*K2)
zero_HCO3_TA_K2(h, HCO3, TA, BT, Ks) ==
    LET LH == LeftTA(h, TA, Ks)
        RH == Add(Mul(Mul(HCO3, PolyH(h, Ks)),
                      Add(Add(Mul(Mul(Add(Ks.KB, Ks.K2), Ks.K1), h),
                              Mul(Mul(Mul(Num(2), Ks.KB), Ks.K1), Ks.K2)),
                          Mul(Ks.K1, Pow(h, 2)))),
                  WaterBorate(h, BT, Ks))
    IN Sub(LH, RH)

zero_HCO3_TA(h, HCO3, TA, BT, Ks) ==
    LET LH == LeftTA(h, TA, Ks)
        RH == Add(Mul(Mul(HCO3, PolyH(h, Ks)),
                      Add(Add(Mul(Mul(Add(Ks.KB, Mul(Num(2), Ks.K2)), Ks.K1), h),
                              Mul(Mul(Mul(Num(2), Ks.KB), Ks.K1), Ks.K2)),
                          Mul(Ks.K1, Pow(h, 2)))),
                  WaterBorate(h, BT, Ks))
    IN Sub(LH, RH)

\* zero_HCO3_DIC without the K2 of its left side
zero_HCO3_DIC_noK2(h, HCO3, DIC, Ks) ==
    LET LH == Mul(HCO3, Add(h, Div(Pow(h, 2), Ks.K1)))
        RH == Mul(h, DIC)
    IN Sub(LH, RH)

zero_HCO3_DIC(h, HCO3, DIC, Ks) ==
    LET LH == Mul(HCO3, PolyH(h, Ks))
        RH == Mul(h, DIC)
    IN Sub(LH, RH)

zero_CO3_TA(h, CO3, TA, BT, Ks) ==
    LET LH == LeftTA(h, TA, Ks)
        RH == Add(Mul(Mul(CO3, PolyC(h, Ks)),
                      Add(Add(Mul(Ks.K1, Pow(h, 2)),
                              Mul(Mul(Ks.K1, h),
                                  Add(Ks.KB, Mul(Num(2), Ks.K2)))),
                          Mul(Mul(Mul(Num(2), Ks.KB), Ks.K1), Ks.K2))),
                  WaterBorate(h, BT, Ks))
    IN Sub(LH, RH)

zero_CO3_DIC(h, CO3, DIC, Ks) ==
    LET LH == Mul(CO3, Add(Add(Num(1), Div(h, Ks.K2)),
                           Div(Pow(h, 2), Mul(Ks.K1, Ks.K2))))
        RH == DIC
    IN Sub(LH, RH)

zero_TA_DIC(h, TA, DIC, BT, Ks) ==
    LET LH == Mul(Mul(DIC, Add(Ks.KB, h)),
                  Add(Mul(Ks.K1, Pow(h, 2)),
                      Mul(Mul(Mul(Num(2), Ks.K1), Ks.K2), h)))
        RH == Mul(Add(Sub(Sub(Mul(Mul(TA, Add(Ks.KB, h)), h),
                              Mul(Mul(Ks.KB, BT), h)),
                          Mul(Ks.KW, Add(Ks.KB, h))),
                      Mul(Add(Ks.KB, h), Pow(h, 2))),
                  PolyK(h, Ks))
    IN Sub(LH, RH)

-----------------------------------------------------------------------------
(* The ten implicit pairs, and the residual of each applied to its known   *)
(* quantities a, b (and BT for the pairs with TA).                         *)

Pairs == {"CO2_HCO3", "CO2_CO3", "CO2_TA", "CO2_DIC", "HCO3_CO3",
          "HCO3_TA", "HCO3_DIC", "CO3_TA", "CO3_DIC", "TA_DIC"}
WithBT == {"CO2_TA", "HCO3_TA", "CO3_TA", "TA_DIC"}

Residual(pair, h, a, b, BT, Ks) ==
    CASE pair = "CO2_HCO3" -> zero_CO2_HCO3(h, a, b, Ks)
      [] pair = "CO2_CO3"  -> zero_CO2_CO3(h, a, b, Ks)
      [] pair = "CO2_TA"   -> zero_CO2_TA(h, a, b, BT, Ks)
      [] pair = "CO2_DIC"  -> zero_CO2_DIC(h, a, b, Ks)
      [] pair = "HCO3_CO3" -> zero_HCO3_CO3(h, a, b, Ks)
      [] pair = "HCO3_TA"  -> zero_HCO3_TA(h, a, b, BT, Ks)
      [] pair = "HCO3_DIC" -> zero_HCO3_DIC(h, a, b, Ks)
      [] pair = "CO3_TA"   -> zero_CO3_TA(h, a, b, BT, Ks)
      [] pair = "CO3_DIC"  -> zero_CO3_DIC(h, a, b, Ks)
      [] pair = "TA_DIC"   -> zero_TA_DIC(h, a, b, BT, Ks)

-----------------------------------------------------------------------------
(* Helper functions.                                                       *)

RECURSIVE MaxOf(_)
MaxOf(ns) == IF Len(ns) = 1 THEN ns[1] ELSE Max2(ns[1], MaxOf(Tail(ns)))

\* max([np.size(i) for i in it])
lens(it) == MaxOf([i \in 1..Len(it) |-> Size(it[i])])

\* unp.nominal_values: the same entries without their uncertainty
nominal_values(v) == [v EXCEPT !.u = FALSE]

\* [unp.nominal_values(i) for i in it]
noms(it) == [i \in 1..Len(it) |-> nominal_values(it[i])]

-----------------------------------------------------------------------------
(* scipy.optimize.fsolve as the implicit solvers call it: one system of    *)
(* len(x0) unknowns, full_output not requested.                            *)
(*                                                                         *)
(* fsolve first evaluates the residual at x0 and checks its shape; any     *)
(* exception of the residual propagates.  The iteration (MINPACK hybrd) is *)
(* abstracted to a Newton iteration with forward-difference slopes on the  *)
(* integer grid of h, each step limited to MaxStep grid points: because    *)
(* each residual is elementwise, the step of entry i depends on entry i    *)
(* alone.  What is kept of hybrd is what its interface fixes: the whole    *)
(* vector is one problem with one termination test, one evaluation budget  *)
(* and one status ier (1: converged; 2: budget exhausted; 5: no progress). *)

MaxIter == 3
MaxStep == 2
xtolExp == -12

Clamp(n) == IF n > MaxStep THEN MaxStep ELSE IF n < -MaxStep THEN -MaxStep ELSE n

\* the Newton step of one entry from its residual f at h and f1 at h + 1
NewtonStep(f, f1) ==
    LET d == QSub(f1, f)
    IN IF QIsZero(f) \/ QIsZero(d) THEN 0 ELSE Clamp(-QRound(QDiv(f, d)))

\* an entry that can move no further: at a root, or within the resolution
Settled(f, f1) == QIsZero(f) \/ ~QIsZero(QSub(f1, f))

Shift(x, step) == [i \in 1..Len(x) |-> QAdd(x[i], Q(step[i]))]

\* (a value is named by binding it in a one-element set: it is computed once)
The(S) == CHOOSE v \in S : TRUE

RECURSIVE hybrd(_, _, _, _, _, _, _)
\* one iteration from x, taking the steps `step` found from f and f1
Iterate(pair, x, a, b, BT, Ks, k, f, f1, step) ==
    IF \A i \in 1..Len(x) : step[i] = 0
    THEN [x |-> Array(x),
          ier |-> IF \A i \in 1..Len(x) : Settled(f[i], f1[i]) THEN 1 ELSE 5,
          nit |-> k]
    ELSE IF k = MaxIter
    THEN [x |-> Array(x), ier |-> 2, nit |-> k]
    ELSE The({hybrd(pair, xn, a, b, BT, Ks, k + 1) : xn \in {Shift(x, step)}})

hybrd(pair, x, a, b, BT, Ks, k) ==
    The({Iterate(pair, x, a, b, BT, Ks, k, f, f1,
                 [i \in 1..Len(x) |-> NewtonStep(f[i], f1[i])]) :
           f \in {Residual(pair, Array(x), a, b, BT, Ks).e},
           f1 \in {Residual(pair, Array(Shift(x, [i \in 1..Len(x) |-> 1])),
                            a, b, BT, Ks).e}})

\* fsolve's check of the residual's first value f0 at x0
CheckFunc(pair, x0, a, b, BT, Ks, f0) ==
    IF IsErr(f0)
    THEN [x |-> f0, ier |-> 0, nit |-> 0]
    ELSE IF f0.u \/ f0.sh # Len(x0)
    THEN [x |-> Raise("TypeError"), ier |-> 0, nit |-> 0]
    ELSE hybrd(pair, x0, a, b, BT, Ks, 0)

\* fsolve(func, x0, args=(...), xtol=...): the value returned or raised,
\* the status and the number of iterations
fsolve(pair, x0, fargs, Ks, xtol) ==
    The({CheckFunc(pair, x0, fargs[1], fargs[2], BT, Ks, f0) :
           BT \in {IF Len(fargs) = 3 THEN fargs[3] ELSE Num(0)},
           f0 \in {Residual(pair, Array(x0), fargs[1], fargs[2],
                            IF Len(fargs) = 3 THEN fargs[3] ELSE Num(0), Ks)}})

\* the RuntimeWarning fsolve issues for a status other than 1
Message(status, n) == IF status = 2 THEN <<"maxfev", n>> ELSE <<"progress", 0>>

-----------------------------------------------------------------------------
(* The implicit solvers: every one of the ten is                           *)
(*     L = lens(...); ... = noms(...)                                      *)
(*     return opt.fsolve(zero_..., [guess] * L, args=(..., Ks), xtol=1e-12)*)

\* the guess had every pair started from 1
Guess_ones(pair) == 1

\* the initial guess of each pair
Guess(pair) == IF pair = "HCO3_DIC" THEN 0 ELSE 1

\* the helpers' arguments had Ks been passed along with the species
HelperArgs_withKs(pair, a, b, BT, Ks) ==
    IF pair \in WithBT THEN <<a, b, BT, Ks.K1>> ELSE <<a, b, Ks.K1>>

\* the arguments passed to lens and to noms
HelperArgs(pair, a, b, BT, Ks) ==
    IF pair \in WithBT THEN <<a, b, BT>> ELSE <<a, b>>

\* what a call passed on and what it got back from fsolve
Outcome(L, x0, n, Ks, xtol, r) ==
    [L |-> L, x0 |-> x0, fargs |-> n, ks |-> Ks, xtol |-> xtol,
     x |-> r.x, ier |-> r.ier, nit |-> r.nit,
     log |-> <<"lens", "noms", "fsolve", "residual">>]

Solve(pair, L, n, Ks) ==
    The({Outcome(L, x0, n, Ks, xtolExp, r) :
           x0 \in {[i \in 1..L |-> Q(Guess(pair))]},
           r \in {fsolve(pair, [i \in 1..L |-> Q(Guess(pair))], n, Ks, xtolExp)}})

Implicit(pair, a, b, BT, Ks) ==
    The({Solve(pair, L, n, Ks) :
           L \in {lens(HelperArgs(pair, a, b, BT, Ks))},
           n \in {noms(HelperArgs(pair, a, b, BT, Ks))}})

-----------------------------------------------------------------------------
(* The algebra of the closed forms: inputs drawn from small sets of        *)
(* rationals, the converters, the residuals and the direct formulas        *)
(* applied to them.                                                        *)

MaxNum == 2
MaxDen == 2
MaxDIC == 2
MaxBT == 1
MaxKDen == 2
MaxpH == 0

HGrid == {QNorm(n, d) : n \in 1..MaxNum, d \in 1..MaxDen}
KGrid == {QNorm(1, d) : d \in 1..MaxKDen}
KsGrid == {[K1 |-> Scalar(k1), K2 |-> Scalar(k2),
            KB |-> Scalar(kb), KW |-> Scalar(kw)] :
           k1 \in KGrid, k2 \in KGrid, kb \in KGrid, kw \in KGrid}

NoCall ==
    /\ pc = "off" /\ fn = "" /\ args = <<>> /\ ret = Num(0) /\ log = <<>>
    /\ call = <<>> /\ ier = 0 /\ warned = FALSE /\ onceregistry = {}
    /\ ncalls = 0

InitAlg ==
    /\ stage = "in"
    /\ out = <<>>
    /\ \E viaPH \in BOOLEAN, p \in -1..MaxpH, hq \in HGrid,
          dic \in 0..MaxDIC, bt \in 0..MaxBT, ks \in KsGrid :
         /\ viaPH \/ p = 0
         /\ ~viaPH \/ hq = Q(1)
         /\ inp = [viaPH |-> viaPH, pH |-> Num(p),
                   H |-> IF viaPH THEN ch(Num(p)) ELSE Scalar(hq),
                   DIC |-> Num(dic), BT |-> Num(bt), Ks |-> ks]
    /\ NoCall

\* the four converters applied to (H, DIC, BT, Ks)
Convert ==
    /\ stage = "in"
    /\ ~inp.viaPH
    /\ stage' = "conv"
    /\ LET co2 == cCO2(inp.H, inp.DIC, inp.Ks)
       IN out' = [CO2 |-> co2,
                  HCO3 |-> cHCO3(inp.H, inp.DIC, inp.Ks),
                  CO3 |-> cCO3(inp.H, inp.DIC, inp.Ks),
                  TA |-> cTA(co2, inp.H, inp.BT, inp.Ks)]
    /\ UNCHANGED <<inp, callvars>>

\* the two knowns of each pair, taken from the converted species
Known(pair, o, dic) ==
    CASE pair = "CO2_HCO3" -> <<o.CO2, o.HCO3>>
      [] pair = "CO2_CO3"  -> <<o.CO2, o.CO3>>
      [] pair = "CO2_TA"   -> <<o.CO2, o.TA>>
      [] pair = "CO2_DIC"  -> <<o.CO2, dic>>
      [] pair = "HCO3_CO3" -> <<o.HCO3, o.CO3>>
      [] pair = "HCO3_TA"  -> <<o.HCO3, o.TA>>
      [] pair = "HCO3_DIC" -> <<o.HCO3, dic>>
      [] pair = "CO3_TA"   -> <<o.CO3, o.TA>>
      [] pair = "CO3_DIC"  -> <<o.CO3, dic>>
      [] pair = "TA_DIC"   -> <<o.TA, dic>>

\* every residual evaluated at h = H with its two knowns
EvalResiduals ==
    /\ stage = "conv"
    /\ stage' = "res"
    /\ out' = [pair \in Pairs |->
                 LET k == Known(pair, out, inp.DIC)
                 IN Residual(pair, inp.H, k[1], k[2], inp.BT, inp.Ks)]
    /\ UNCHANGED <<inp, callvars>>

\* each direct formula applied to the output of its inverse at the same pH
RoundTrip ==
    /\ stage = "in"
    /\ inp.viaPH
    /\ stage' = "direct"
    /\ LET co2 == cCO2(inp.H, inp.DIC, inp.Ks)
           ta == cTA(co2, inp.H, inp.BT, inp.Ks)
       IN out' = [viaCO2 |-> CO2_pH(pH_DIC(inp.pH, inp.DIC, inp.Ks),
                                    inp.pH, inp.Ks),
                  viaHCO3 |-> pH_HCO3(inp.pH, cHCO3(inp.H, inp.DIC, inp.Ks),
                                      inp.Ks),
                  viaCO3 |-> pH_CO3(inp.pH, cCO3(inp.H, inp.DIC, inp.Ks),
                                    inp.Ks),
                  viaTA |-> cTA(pH_TA(inp.pH, ta, inp.BT, inp.Ks),
                                inp.H, inp.BT, inp.Ks),
                  CO2 |-> co2,
                  TA |-> ta,
                  pHDIC |-> pH_DIC(inp.pH, inp.DIC, inp.Ks)]
    /\ UNCHANGED <<inp, callvars>>

NextAlg == Convert \/ EvalResiduals \/ RoundTrip

SpecAlg == InitAlg /\ [][NextAlg]_vars

-----------------------------------------------------------------------------
(* Calls of the library.  The library keeps no state of its own; what      *)
(* outlives a call is the interpreter's record of the warnings already     *)
(* shown (a RuntimeWarning is shown once per place and message).           *)
(*   fn, args   the function called and its arguments as supplied          *)
(*   ret        the value returned, or the exception raised                *)
(*   log        lens / noms / fsolve / residual, in the order first run    *)
(*   call       what the implicit solver passed on: L, x0, the residual's  *)
(*              arguments, Ks, xtol                                        *)
(*   ier        fsolve's status (0: fsolve did not complete or never ran)  *)
(*   warned     a RuntimeWarning was shown during the call                 *)

MaxLen == 3
MaxCalls == 2

Direct == {"CO2_pH", "pH_HCO3", "pH_CO3", "pH_TA", "pH_DIC"}
Converters == {"cCO2", "cHCO3", "cCO3", "cTA"}

\* the closed forms by name; a and b are the first two positional arguments
Formula(f, a, b, BT, Ks) ==
    CASE f = "CO2_pH"  -> CO2_pH(a, b, Ks)
      [] f = "pH_HCO3" -> pH_HCO3(a, b, Ks)
      [] f = "pH_CO3"  -> pH_CO3(a, b, Ks)
      [] f = "pH_TA"   -> pH_TA(a, b, BT, Ks)
      [] f = "pH_DIC"  -> pH_DIC(a, b, Ks)
      [] f = "cCO2"    -> cCO2(a, b, Ks)
      [] f = "cHCO3"   -> cHCO3(a, b, Ks)
      [] f = "cCO3"    -> cCO3(a, b, Ks)
      [] f = "cTA"     -> cTA(a, b, BT, Ks)

NoSolve == [L |-> 0, x0 |-> <<>>, fargs |-> <<>>, ks |-> <<>>, xtol |-> 0,
            nit |-> 0]

InitCall ==
    /\ pc = "idle" /\ fn = "" /\ args = <<>> /\ ret = Num(0) /\ log = <<>>
    /\ call = NoSolve /\ ier = 0 /\ warned = FALSE /\ onceregistry = {}
    /\ ncalls = 0
    /\ stage = "off" /\ inp = <<>> /\ out = <<>>

\* the state after an implicit solver returned (or raised) r
Returned(pair, c, r, key) ==
    /\ ret' = r.x
    /\ log' = r.log
    /\ call' = [L |-> r.L, x0 |-> r.x0, fargs |-> r.fargs, ks |-> r.ks,
                xtol |-> r.xtol, nit |-> r.nit]
    /\ ier' = r.ier
    /\ warned' = (r.ier \notin {0, 1} /\ key \notin onceregistry)
    /\ onceregistry' = IF r.ier \in {0, 1} THEN onceregistry
                       ELSE onceregistry \cup {key}
    /\ pc' = "done" /\ fn' = pair /\ args' = c /\ ncalls' = ncalls + 1
    /\ UNCHANGED algvars

\* one of the ten implicit solvers, called with c = [a, b, BT, Ks]
CallImplicit(pair, c) ==
    /\ pc = "idle"
    /\ \E r \in {Implicit(pair, c.a, c.b, c.BT, c.Ks)} :
         Returned(pair, c, r, <<pair, Message(r.ier, r.L)>>)

\* a direct-formula solver or a converter: the closed form, nothing else
CallFormula(f, c) ==
    /\ pc = "idle"
    /\ ret' = Formula(f, c.a, c.b, c.BT, c.Ks)
    /\ log' = <<>> /\ call' = NoSolve /\ ier' = 0 /\ warned' = FALSE
    /\ pc' = "done" /\ fn' = f /\ args' = c /\ ncalls' = ncalls + 1
    /\ UNCHANGED <<onceregistry, algvars>>

\* the caller takes the result and goes on in the same interpreter
Return ==
    /\ pc = "done"
    /\ ncalls < MaxCalls
    /\ pc' = "idle"
    /\ UNCHANGED <<fn, args, ret, log, call, ier, warned, onceregistry,
                   ncalls, algvars>>

-----------------------------------------------------------------------------
(* The arguments the calls are made with.                                  *)

CallVals == {0, 1, 2}
Scalars == {Num(v) : v \in CallVals}
\* every array of 2..MaxLen entries over {1, 2}
Arrays == UNION {{Array(q) : q \in [1..n -> {Q(1), Q(2)}]} : n \in 2..MaxLen}
\* arrays of equal entries
Flat == {Array([i \in 1..n |-> Q(v)]) : n \in 2..MaxLen, v \in {1, 2}}
Ones(n) == Array([i \in 1..n |-> Q(1)])

KsOf(k) == [K1 |-> k, K2 |-> k, KB |-> k, KW |-> k]
\* how a call varies: plain numbers, species with uncertainties, constants
\* given as arrays, constants with uncertainties
Variants == {"plain", "uspecies", "aKs", "uKs"}
Dress(v, x) == IF v = "uspecies" THEN Uncertain(x) ELSE x
KsFor(v) ==
    CASE v = "aKs" -> KsOf(Ones(MaxLen))
      [] v = "uKs" -> KsOf(Uncertain(Num(1)))
      [] OTHER     -> KsOf(Num(1))

BTs(f) == IF f \in WithBT \cup {"pH_TA", "cTA"}
          THEN {Num(0), Num(1), Ones(MaxLen)} ELSE {Num(0)}

\* K1 = 1e-6, K2 = 1e-9, HCO3 = 0.002, DIC = 0.0021, with h, K1 and K2 in
\* units of 1e-9 and HCO3 and DIC in units of 1e-4 (the residual of
\* HCO3_DIC scales with either unit, so its roots are those of the
\* original in units of 1e-9)
RootCase ==
    [a |-> Num(20), b |-> Num(21), BT |-> Num(0),
     Ks |-> [K1 |-> Num(1000), K2 |-> Num(1), KB |-> Num(1), KW |-> Num(1)]]

ImplicitCases(pair) ==
    {[a |-> Dress(v, a), b |-> Dress(v, b), BT |-> Dress(v, bt), Ks |-> KsFor(v)] :
       a \in Scalars \cup Arrays, b \in Scalars \cup Flat, bt \in BTs(pair),
       v \in Variants}
    \cup (IF pair = "HCO3_DIC" THEN {RootCase} ELSE {})

\* pH is -1, 0 or 1, a scalar or an array; H is 10, 1 or 1/10
pHs == {Num(-1), Num(0), Num(1), Array(<<Q(0), Q(1)>>)}
Hs == {Scalar(<<1, 10>>), Num(1), Num(10), Array(<<Q(1), <<1, 10>>>>)}

\* (a pH is always a plain number)
FormulaCases(f) ==
    {[a |-> a, b |-> Dress(v, b), BT |-> Dress(v, bt), Ks |-> KsFor(v)] :
       a \in pHs, b \in Scalars \cup Flat, bt \in BTs(f), v \in Variants}

CO2pHCases ==
    {[a |-> Dress(v, a), b |-> b, BT |-> Num(0), Ks |-> KsFor(v)] :
       a \in Scalars \cup Flat, b \in pHs, v \in Variants}

ConverterCases(f) ==
    {[a |-> Dress(v, a), b |-> Dress(v, b), BT |-> Dress(v, bt), Ks |-> KsFor(v)] :
       a \in (IF f = "cTA" THEN Scalars \cup Flat ELSE Hs),
       b \in (IF f = "cTA" THEN Hs ELSE Scalars \cup Flat),
       bt \in BTs(f), v \in Variants}

\* one call in a fresh interpreter
Init == InitCall

Next ==
    \/ \E pair \in Pairs : \E c \in ImplicitCases(pair) : CallImplicit(pair, c)
    \/ \E f \in Direct \ {"CO2_pH"} : \E c \in FormulaCases(f) : CallFormula(f, c)
    \/ \E c \in CO2pHCases : CallFormula("CO2_pH", c)
    \/ \E f \in Converters : \E c \in ConverterCases(f) : CallFormula(f, c)

Spec == Init /\ [][Next]_vars

\* a sequence of calls in one interpreter, with scalar arguments
ScalarCases(pair) ==
    {[a |-> a, b |-> b, BT |-> Num(1), Ks |-> KsOf(Num(1))] :
       a \in Scalars, b \in Scalars}

NextProc ==
    \/ \E pair \in Pairs : \E c \in ScalarCases(pair) : CallImplicit(pair, c)
    \/ \E f \in Direct : \E c \in {[a |-> Num(1), b |-> Num(1), BT |-> Num(1),
                                    Ks |-> KsOf(Num(1))]} : CallFormula(f, c)
    \/ Return

SpecProc == Init /\ [][NextProc]_vars

-----------------------------------------------------------------------------
(* Properties of the algebra (SpecAlg).                                    *)

\* C1: with CO2, HCO3, CO3 and TA produced by the converters from a true
\* H > 0, DIC > 0, BT and Ks, every one of the ten residuals, given its two
\* known quantities and evaluated at h = H, is zero.
C1_ResidualsVanishAtTrueH ==
    (stage = "res" /\ QLess(Q(0), inp.DIC.e[1]))
        => \A pair \in Pairs : out[pair] = Num(0)

C1_Witness ==
    /\ stage = "res"
    /\ inp.H = Scalar(<<1, 2>>) /\ inp.DIC = Num(2) /\ inp.BT = Num(1)
    /\ inp.Ks.K1 # inp.Ks.K2
    /\ out["HCO3_TA"] = Num(0)

\* C2: for every H > 0, DIC and Ks, the three carbon species computed by
\* cCO2, cHCO3 and cCO3 add up to DIC.
C2_CarbonConserved ==
    stage = "conv" => Add(Add(out.CO2, out.HCO3), out.CO3) = inp.DIC

C2_Witness ==
    /\ stage = "conv"
    /\ inp.H = Scalar(<<1, 2>>) /\ inp.DIC = Num(2)
    /\ inp.Ks.K1 # inp.Ks.K2
    /\ out.CO2 # out.CO3

\* C3: at a fixed pH each direct formula undoes its inverse: CO2_pH of the
\* CO2 of pH_DIC is DIC, pH_HCO3 of cHCO3 is DIC, pH_CO3 of cCO3 is DIC, the
\* CO2 of pH_TA reproduces TA through cTA, and pH_DIC(pH, DIC, Ks) equals
\* cCO2(ch(pH), DIC, Ks).
C3_DirectRoundTrip ==
    stage = "direct" =>
        /\ out.viaCO2 = inp.DIC
        /\ out.viaHCO3 = inp.DIC
        /\ out.viaCO3 = inp.DIC
        /\ out.viaTA = out.TA
        /\ out.pHDIC = out.CO2

C3_Witness ==
    /\ stage = "direct"
    /\ inp.pH = Num(-1) /\ inp.DIC = Num(2) /\ inp.BT = Num(1)
    /\ inp.Ks.K1 # inp.Ks.K2
    /\ out.viaTA = out.TA

-----------------------------------------------------------------------------
(* Properties of one call (Spec).                                          *)

\* the call that has just returned
Done(f) == pc = "done" /\ fn = f

\* the species (and BT) arguments of the call, without Ks
SpeciesOf(f, c) == IF f \in WithBT THEN {c.a, c.b, c.BT} ELSE {c.a, c.b}
SpeciesMax(f, c) ==
    CHOOSE n \in {Size(v) : v \in SpeciesOf(f, c)} :
        \A v \in SpeciesOf(f, c) : Size(v) <= n

\* the residual of HCO3_DIC in h for the knowns of RootCase is the quadratic
\* QuadA*h^2 + QuadB*h + QuadC; its coefficients from its values at -1, 0, 1
RootResidual(h) ==
    zero_HCO3_DIC(Scalar(h), RootCase.a, RootCase.b, RootCase.Ks).e[1]
QuadC == RootResidual(Q(0))
QuadA == QSub(QDiv(QAdd(RootResidual(Q(1)), RootResidual(Q(-1))), Q(2)), QuadC)
QuadB == QDiv(QSub(RootResidual(Q(1)), RootResidual(Q(-1))), Q(2))
Disc == QSub(QMul(QuadB, QuadB), QMul(Q(4), QMul(QuadA, QuadC)))

\* C4 as stated: for HCO3_DIC with K1 = 1e-6, K2 = 1e-9, HCO3 = 0.002 and
\* DIC = 0.0021 the residual has two distinct positive roots, and the H
\* returned is the smaller of them.
C4_SmallerRootReturned ==
    (Done("HCO3_DIC") /\ args = RootCase) =>
        /\ QLess(Q(0), Disc)
        /\ QLess(Q(0), QDiv(QuadC, QuadA))
        /\ QLess(QDiv(QuadB, QuadA), Q(0))
        /\ ~IsErr(ret)
        /\ QIsZero(RootResidual(ret.e[1]))
        /\ QLess(ret.e[1], QDiv(QNeg(QuadB), QMul(Q(2), QuadA)))

\* C4: for HCO3_DIC with K1 = 1e-6, K2 = 1e-9, HCO3 = 0.002 and DIC = 0.0021
\* the residual has no real root (its discriminant is negative and it is
\* positive at h = 0), so the H returned from the guess 0 is not a root: the
\* residual is positive there.
C4_NoRealRoot ==
    (Done("HCO3_DIC") /\ args = RootCase) =>
        /\ QLess(Disc, Q(0))
        /\ QLess(Q(0), QuadA) /\ QLess(Q(0), QuadC)
        /\ ~IsErr(ret) /\ ret.sh = 1
        /\ QLess(Q(0), RootResidual(ret.e[1]))

C4_Witness ==
    /\ Done("HCO3_DIC") /\ args = RootCase
    /\ call.x0 = <<Q(0)>>
    /\ ~IsErr(ret)

\* C6 as stated: a call whose array arguments cannot be broadcast together
\* (sizes 2 and 3) raises an error before lens and noms are used for the
\* initial guess, before fsolve is invoked and before any residual is
\* evaluated.
C6_ShapeErrorBeforeComputation ==
    (pc = "done" /\ fn \in Pairs
       /\ \E v, w \in SpeciesOf(fn, args) : v.sh > 1 /\ w.sh > 1 /\ v.sh # w.sh)
        => /\ IsErr(ret)
           /\ call.x0 = <<>>
           /\ \A i \in 1..Len(log) : log[i] \notin {"fsolve", "residual"}

\* entry i of an argument, as a scalar argument
Elem(v, i) == [sh |-> 0, e |-> <<At(v, i)>>, u |-> v.u, err |-> ""]

\* C7 as stated: for a call with arrays of length 3 (Ks scalar), entry i of
\* the H returned is what the scalar call with entry i alone returns, and
\* the call converged for entry i exactly when that scalar call converges.
C7_ElementwiseIndependent ==
    (pc = "done" /\ fn \in Pairs /\ call.L = 3 /\ ~IsErr(ret)
       /\ args.Ks.K1.sh = 0)
        => \A i \in 1..3 :
             \E s \in {Implicit(fn, Elem(args.a, i), Elem(args.b, i),
                                Elem(args.BT, i), args.Ks)} :
                /\ ret.e[i] = s.x.e[1]
                /\ (ier = 1) = (s.ier = 1)

\* C8: an implicit solver takes L, the largest size of its species (and BT)
\* arguments, from lens, strips the uncertainties with noms, then calls
\* fsolve exactly once with the nominal values, xtol = 1e-12 and a guess of
\* L entries, each 1 (0 for HCO3_DIC); when fsolve returns, what the solver
\* returns is fsolve's H, of L entries.
C8_SolverCallSequence ==
    (pc = "done" /\ fn \in Pairs) =>
        /\ call.L = SpeciesMax(fn, args)
        /\ call.fargs = (IF fn \in WithBT
                         THEN <<nominal_values(args.a), nominal_values(args.b),
                                nominal_values(args.BT)>>
                         ELSE <<nominal_values(args.a), nominal_values(args.b)>>)
        /\ log = <<"lens", "noms", "fsolve", "residual">>
        /\ call.xtol = xtolExp
        /\ call.x0 = [i \in 1..call.L |-> Q(IF fn = "HCO3_DIC" THEN 0 ELSE 1)]
        /\ (~IsErr(ret) => ret.sh = call.L /\ Len(ret.e) = call.L /\ ~ret.u)

C8_Witness ==
    /\ Done("HCO3_DIC")
    /\ args.a.sh = 3 /\ args.a.u
    /\ call.x0 = <<Q(0), Q(0), Q(0)>>
    /\ ~IsErr(ret) /\ ret.sh = 3

\* C9: a direct-formula solver or a converter runs no fsolve, no lens and no
\* noms: it returns in one step, and an uncertainty carried by its species
\* argument is carried by what it returns.
C9_DirectNoSolver ==
    (pc = "done" /\ fn \in Direct \cup Converters) =>
        /\ log = <<>>
        /\ call = NoSolve
        /\ ier = 0 /\ ~warned
        /\ ncalls = 1
        /\ ((\E v \in SpeciesOf(fn, args) : v.u) /\ ~IsErr(ret) => ret.u)

C9_Witness ==
    /\ Done("pH_HCO3")
    /\ args.b.u /\ args.b.sh = 3
    /\ ~IsErr(ret) /\ ret.u /\ ret.sh = 3

\* C10: an implicit solver hands Ks to fsolve as it received it (uncertainty
\* and shape included), and L is the largest size of the species arguments
\* whatever the number of entries of the constants in Ks.
C10_KsUntouched ==
    (pc = "done" /\ fn \in Pairs) =>
        /\ call.ks = args.Ks
        /\ call.L = SpeciesMax(fn, args)
        /\ \A v \in Variants :
             lens(HelperArgs(fn, args.a, args.b, args.BT, KsFor(v))) = call.L

C10_Witness ==
    /\ Done("TA_DIC")
    /\ args.Ks.K1.sh = MaxLen
    /\ call.L = 1
    /\ call.ks = args.Ks

-----------------------------------------------------------------------------
(* Properties of a sequence of calls (SpecProc).                           *)

\* C5 as stated: when fsolve does not converge, the implicit solver does not
\* return its last iterate as if it were a converged H: the call carries a
\* warning (or has raised).
C5_NonConvergenceSignalled ==
    (pc = "done" /\ fn \in Pairs /\ ~IsErr(ret) /\ ier # 1) => warned

=============================================================================
